---- MODULE Spec2Model ----
(***************************************************************************)
(* zetsuboii/mini-xmpp, scripts/socket: a TCP client (client.py) that      *)
(* connects, sends one string and closes, and a TCP server (server.py)     *)
(* that binds, listens, accepts one connection and prints what it reads    *)
(* until the peer closes.  The processes run on one host; the kernel's     *)
(* port table, the accept queue and the byte streams of the connections    *)
(* are part of the state.                                                  *)
(***************************************************************************)
EXTENDS Integers, Sequences, FiniteSets, TLC

(***************************************************************************)
(* Program constants                                                       *)
(***************************************************************************)
\* server.py:16  client_socket.recv(1024)
BUFSIZE == 1024
\* server.py:6   server_socket.listen(1)
Backlog == 1
\* client.py:11  message = "Hello, Server!"  (as code points)
message == <<72, 101, 108, 108, 111, 44, 32, 83, 101, 114, 118, 101, 114, 33>>

(***************************************************************************)
(* Bounds of the model                                                     *)
(***************************************************************************)
\* how many times the transport may hand over only a part of what is in
\* flight on a connection; after that it hands over all that is in flight
MaxSplits == 1
\* bytes of the long streams beyond one full buffer
LongExtra == 6

Servers == {"s1", "s2"}
Clients == {"c1", "c2"}
None == "none"

(***************************************************************************)
(* str.encode() and bytes.decode(): UTF-8, strict                          *)
(***************************************************************************)
IsCont(x) == x >= 128 /\ x <= 191

\* length of the sequence a lead byte announces, 0 for a byte that can
\* start no sequence (0x80..0xC1, 0xF5..0xFF)
SeqLen(x) ==
    IF x <= 127 THEN 1
    ELSE IF x >= 194 /\ x <= 223 THEN 2
    ELSE IF x >= 224 /\ x <= 239 THEN 3
    ELSE IF x >= 240 /\ x <= 244 THEN 4
    ELSE 0

\* the range the second byte must lie in (no overlong forms, no
\* surrogates, nothing above U+10FFFF)
SecondOk(lead, x) ==
    IF lead = 224 THEN x >= 160 /\ x <= 191
    ELSE IF lead = 237 THEN x >= 128 /\ x <= 159
    ELSE IF lead = 240 THEN x >= 144 /\ x <= 191
    ELSE IF lead = 244 THEN x >= 128 /\ x <= 143
    ELSE IsCont(x)

\* the sequence starting at b[i] is complete and well formed, and is
\* followed by the start of another one or by the end of b
WellFormedAt(b, i) ==
    LET n == SeqLen(b[i])
    IN  /\ n # 0
        /\ i + n - 1 <= Len(b)
        /\ n >= 2 => SecondOk(b[i], b[i + 1])
        /\ \A j \in 2..(n - 1) : IsCont(b[i + j])
        /\ i + n <= Len(b) => ~IsCont(b[i + n])

\* bytes.decode() returns; otherwise it raises UnicodeDecodeError
Decodable(b) ==
    /\ Len(b) > 0 => ~IsCont(b[1])
    /\ \A i \in 1..Len(b) : ~IsCont(b[i]) => WellFormedAt(b, i)

CodePoint(b, i) ==
    LET n == SeqLen(b[i])
    IN  IF n = 1 THEN b[i]
        ELSE IF n = 2 THEN (b[i] - 192) * 64 + (b[i + 1] - 128)
        ELSE IF n = 3 THEN (b[i] - 224) * 4096 + (b[i + 1] - 128) * 64
                           + (b[i + 2] - 128)
        ELSE (b[i] - 240) * 262144 + (b[i + 1] - 128) * 4096
             + (b[i + 2] - 128) * 64 + (b[i + 3] - 128)

\* bytes.decode("latin-1"): one code point per byte
DecodeLatin1(b) == b

\* bytes.decode() of a decodable b: one code point per sequence, which
\* is one per byte that is not a continuation byte
Decode(b) ==
    SelectSeq([i \in 1..Len(b) |-> IF IsCont(b[i]) THEN -1 ELSE CodePoint(b, i)],
              LAMBDA x : x >= 0)

\* the j-th byte (1..4) of the encoding of code point cp, -1 if it has
\* fewer bytes
EncByte(cp, j) ==
    IF cp < 128 THEN (IF j = 1 THEN cp ELSE -1)
    ELSE IF cp < 2048 THEN
        (IF j = 1 THEN 192 + (cp \div 64)
         ELSE IF j = 2 THEN 128 + (cp % 64)
         ELSE -1)
    ELSE IF cp < 65536 THEN
        (IF j = 1 THEN 224 + (cp \div 4096)
         ELSE IF j = 2 THEN 128 + ((cp \div 64) % 64)
         ELSE IF j = 3 THEN 128 + (cp % 64)
         ELSE -1)
    ELSE
        (IF j = 1 THEN 240 + (cp \div 262144)
         ELSE IF j = 2 THEN 128 + ((cp \div 4096) % 64)
         ELSE IF j = 3 THEN 128 + ((cp \div 64) % 64)
         ELSE 128 + (cp % 64))

\* str.encode()
Encode(str) ==
    SelectSeq([k \in 1..(4 * Len(str)) |->
                   EncByte(str[((k - 1) \div 4) + 1], ((k - 1) % 4) + 1)],
              LAMBDA x : x >= 0)

(***************************************************************************)
(* The byte streams a peer of the server sends.  client.py sends           *)
(* HelloBytes; the others are the peers of the spec's test scenarios.      *)
(***************************************************************************)
HelloBytes == Encode(message)
\* a peer that closes without sending
NoBytes == <<>>
\* more than one buffer of ASCII
LongBytes == [i \in 1..(BUFSIZE + LongExtra) |-> 97]
\* valid UTF-8 whose two-byte character U+00E9 straddles byte BUFSIZE
CutBytes == [i \in 1..(BUFSIZE + LongExtra) |->
                IF i = BUFSIZE THEN 195 ELSE IF i = BUFSIZE + 1 THEN 169 ELSE 98]
\* not UTF-8 at all: "H" followed by 0xFF
BadBytes == <<72, 255>>

StreamNames == {"hello", "none", "long", "cut", "bad"}

Bytes(name) ==
    CASE name = "hello" -> HelloBytes
      [] name = "none" -> NoBytes
      [] name = "long" -> LongBytes
      [] name = "cut" -> CutBytes
      [] name = "bad" -> BadBytes

\* the peers are interchangeable: the streams are ordered so that Init
\* takes each pair of them once
StreamRank(name) ==
    CASE name = "hello" -> 1
      [] name = "long" -> 2
      [] name = "cut" -> 3
      [] name = "bad" -> 4
      [] name = "none" -> 5

\* the sizes of the parts the transport may hand over
SplitSizes == {1, 7}

(***************************************************************************)
(* State                                                                   *)
(***************************************************************************)
VARIABLES
    \* server.py, one copy per server process
    spc,        \* the statement the process is at, or "done" / "crashed"
    server_socket,  \* none, bound, listening, closed, reaped (by the kernel)
    client_socket,  \* none, open, closed, reaped (by the kernel)
    client_address, \* the peer of the connection accept() returned
    stdout,     \* the lines printed so far
    serr,       \* the exception that ended the process, "" if none
    sexit,      \* exit status, -1 while the process runs
    scalls,     \* how often the process called accept / close / close
    \* client.py, one copy per peer process
    cpc,        \* the statement the process is at, or "done" / "crashed"
    sock,       \* client_socket of client.py: none, connected, closed, reaped
    payload,    \* the name of the byte stream the peer sends
    cerr,       \* the exception that ended the process, "" if none
    cexit,      \* exit status, -1 while the process runs
    ccalls,     \* how often the process called connect / sendall / close
    \* the kernel: one TCP connection per client, one accept queue per server.
    \* A connection carries the client's bytes in order; three cursors into
    \* them say how far each stage has got.
    conn,       \* none, queued, accepted, reset, closed (the server's end)
    connTo,     \* the server the connection was made to
    acceptq,    \* established connections not yet accepted
    nsent,      \* bytes the client has written to the connection
    narrived,   \* of those, bytes that reached the server's receive buffer
    nread,      \* of those, bytes recv() has returned
    fin,        \* the client has closed its end
    splits      \* partial hand-overs made so far

svars == <<spc, server_socket, client_socket, client_address, stdout,
           serr, sexit, scalls>>
cvars == <<cpc, sock, payload, cerr, cexit, ccalls>>
kvars == <<conn, connTo, acceptq, nsent, narrived, nread, fin, splits>>
vars == <<svars, cvars, kvars>>

Listening == "Listening on port 9292..."
ConnectionFrom == "Connection from "
Received == "Received message: "

\* the exceptions that end a process
AddrInUse == "OSError: Address already in use"
DecodeError == "UnicodeDecodeError"
Refused == "ConnectionRefusedError"
ConnReset == "ConnectionResetError"

\* one printed line: the literal text, then the formatted value
Line(text, addr, msg) == [text |-> text, addr |-> addr, msg |-> msg]

Init ==
    /\ spc = [s \in Servers |-> "bind"]
    /\ server_socket = [s \in Servers |-> "none"]
    /\ client_socket = [s \in Servers |-> "none"]
    /\ client_address = [s \in Servers |-> None]
    /\ stdout = [s \in Servers |-> <<>>]
    /\ serr = [s \in Servers |-> ""]
    /\ sexit = [s \in Servers |-> -1]
    /\ scalls = [s \in Servers |->
                    [accept |-> 0, closeConn |-> 0, closeListen |-> 0]]
    /\ cpc = [c \in Clients |-> "connect"]
    /\ sock = [c \in Clients |-> "none"]
    /\ payload \in [Clients -> StreamNames]
    /\ StreamRank(payload["c1"]) <= StreamRank(payload["c2"])
    /\ cerr = [c \in Clients |-> ""]
    /\ cexit = [c \in Clients |-> -1]
    /\ ccalls = [c \in Clients |-> [connect |-> 0, sendall |-> 0, close |-> 0]]
    /\ conn = [c \in Clients |-> "none"]
    /\ connTo = [c \in Clients |-> None]
    /\ acceptq = [s \in Servers |-> <<>>]
    /\ nsent = [c \in Clients |-> 0]
    /\ narrived = [c \in Clients |-> 0]
    /\ nread = [c \in Clients |-> 0]
    /\ fin = [c \in Clients |-> FALSE]
    /\ splits = 0

(***************************************************************************)
(* The kernel                                                              *)
(***************************************************************************)
\* all bytes the client has written to connection c
Sent(c) == SubSeq(Bytes(payload[c]), 1, nsent[c])
\* the number of bytes written and not yet in the server's receive buffer
InFlight(c) == nsent[c] - narrived[c]
\* the number of bytes in the server's receive buffer, not yet read
Unread(c) == narrived[c] - nread[c]

\* a port several sockets may be bound to (SO_REUSEPORT)
PortShared(s) == FALSE

\* port 9292 is taken by a socket of another process
PortInUse(s) ==
    \E t \in Servers \ {s} : server_socket[t] \in {"bound", "listening"}

\* the sockets listening on port 9292
Listeners == {s \in Servers : server_socket[s] = "listening"}

\* the connections a listening socket still holds when it goes away are reset
ResetQueued(s) ==
    [c \in Clients |->
        IF conn[c] = "queued" /\ connTo[c] = s THEN "reset" ELSE conn[c]]

\* a recv() that ignores its size argument
RecvAll(c, n) == SubSeq(Bytes(payload[c]), nread[c] + 1, narrived[c])

\* the bytes one recv(n) returns: what the receive buffer holds, at most n
Recv(c, n) ==
    SubSeq(Bytes(payload[c]), nread[c] + 1,
           nread[c] + (IF Unread(c) < n THEN Unread(c) ELSE n))

\* a recv() that never blocks (a socket with a timeout of 0)
RecvNoWait(c) == TRUE

\* recv() returns: there is data, or the peer has closed and all it sent
\* has been read; otherwise it blocks
RecvReady(c) == Unread(c) > 0 \/ (fin[c] /\ InFlight(c) = 0)

\* the transport hands n more bytes of connection c to the receiver
Deliver(c, n) ==
    /\ conn[c] \in {"queued", "accepted"}
    /\ n >= 1 /\ n <= InFlight(c)
    /\ n = InFlight(c) \/ splits < MaxSplits
    /\ narrived' = [narrived EXCEPT ![c] = @ + n]
    /\ splits' = IF n < InFlight(c) THEN splits + 1 ELSE splits
    /\ UNCHANGED <<svars, cvars, conn, connTo, acceptq, nsent, nread, fin>>

(***************************************************************************)
(* server.py                                                               *)
(***************************************************************************)
\* an exception that is caught and dropped (try: ... except: pass)
ServerSwallow(s, exc) ==
    /\ UNCHANGED <<spc, serr, sexit, server_socket, client_socket, acceptq, conn>>

\* an unhandled exception: the traceback, exit status 1, and the kernel
\* takes back the sockets the process still holds
ServerCrash(s, exc) ==
    /\ spc' = [spc EXCEPT ![s] = "crashed"]
    /\ serr' = [serr EXCEPT ![s] = exc]
    /\ sexit' = [sexit EXCEPT ![s] = 1]
    /\ server_socket' = [server_socket EXCEPT ![s] = "reaped"]
    /\ client_socket' = [client_socket EXCEPT ![s] =
                             IF @ = "open" THEN "reaped" ELSE @]
    /\ acceptq' = [acceptq EXCEPT ![s] = <<>>]
    /\ conn' = [c \in Clients |->
                  IF c = client_address[s] /\ client_socket[s] = "open"
                  THEN "reset"
                  ELSE ResetQueued(s)[c]]

\* lines 4-5: server_socket = socket.socket(...);
\* server_socket.bind(('0.0.0.0', 9292))
ServerBind(s) ==
    /\ spc[s] = "bind"
    /\ IF PortInUse(s)
       THEN /\ ServerCrash(s, AddrInUse)
            /\ UNCHANGED <<client_address, stdout, scalls, cvars,
                           connTo, nsent, narrived, nread, fin, splits>>
       ELSE /\ server_socket' = [server_socket EXCEPT ![s] = "bound"]
            /\ spc' = [spc EXCEPT ![s] = "listen"]
            /\ UNCHANGED <<client_socket, client_address, stdout, serr, sexit,
                           scalls, cvars, kvars>>

\* lines 6-8: server_socket.listen(1); print("Listening on port 9292...")
ServerListen(s) ==
    /\ spc[s] = "listen"
    /\ server_socket' = [server_socket EXCEPT ![s] = "listening"]
    /\ stdout' = [stdout EXCEPT ![s] = Append(@, Line(Listening, "", <<>>))]
    /\ spc' = [spc EXCEPT ![s] = "accept"]
    /\ UNCHANGED <<client_socket, client_address, serr, sexit, scalls,
                   cvars, kvars>>

\* lines 11-12: client_socket, client_address = server_socket.accept();
\* print(f"Connection from {client_address}")
ServerAccept(s) ==
    /\ spc[s] = "accept"
    /\ acceptq[s] # <<>>
    /\ LET c == Head(acceptq[s])
       IN  /\ client_address' = [client_address EXCEPT ![s] = c]
           /\ conn' = [conn EXCEPT ![c] = "accepted"]
           /\ stdout' = [stdout EXCEPT ![s] =
                            Append(@, Line(ConnectionFrom, c, <<>>))]
    /\ acceptq' = [acceptq EXCEPT ![s] = Tail(@)]
    /\ client_socket' = [client_socket EXCEPT ![s] = "open"]
    /\ scalls' = [scalls EXCEPT ![s].accept = @ + 1]
    /\ spc' = [spc EXCEPT ![s] = "recv"]
    /\ UNCHANGED <<server_socket, serr, sexit, cvars,
                   connTo, nsent, narrived, nread, fin, splits>>

\* a loop without its break
NeverBreaks(msg) == FALSE

\* line 17: if not message: break
Breaks(msg) == msg = <<>>

\* lines 15-19: one turn of the loop
\*   message = client_socket.recv(1024).decode()
\*   if not message: break
\*   print(f"Received message: {message}")
ServerRecv(s) ==
    /\ spc[s] = "recv"
    /\ RecvReady(client_address[s])
    /\ \E c \in {client_address[s]} : \E data \in {Recv(c, BUFSIZE)} :
           /\ nread' = [nread EXCEPT ![c] = @ + Len(data)]
           /\ IF ~Decodable(data)
              THEN /\ ServerCrash(s, DecodeError)
                   /\ UNCHANGED stdout
              ELSE /\ IF Breaks(Decode(data))
                      THEN /\ spc' = [spc EXCEPT ![s] = "close_conn"]
                           /\ UNCHANGED stdout
                      ELSE /\ stdout' = [stdout EXCEPT ![s] =
                                            Append(@, Line(Received, "", Decode(data)))]
                           /\ UNCHANGED spc
                   /\ UNCHANGED <<server_socket, client_socket, serr, sexit,
                                  conn, acceptq>>
    /\ UNCHANGED <<client_address, scalls, cvars,
                   connTo, nsent, narrived, fin, splits>>

\* line 22 followed by a jump back to accept(): a server that serves one
\* client after the other
ServerCloseConnLoop(s) ==
    /\ spc[s] = "close_conn"
    /\ client_socket' = [client_socket EXCEPT ![s] = "closed"]
    /\ conn' = [conn EXCEPT ![client_address[s]] = "closed"]
    /\ scalls' = [scalls EXCEPT ![s].closeConn = @ + 1]
    /\ spc' = [spc EXCEPT ![s] = "accept"]
    /\ UNCHANGED <<server_socket, client_address, stdout, serr, sexit, cvars,
                   connTo, acceptq, nsent, narrived, nread, fin, splits>>

\* line 22: client_socket.close()
ServerCloseConn(s) ==
    /\ spc[s] = "close_conn"
    /\ client_socket' = [client_socket EXCEPT ![s] = "closed"]
    /\ conn' = [conn EXCEPT ![client_address[s]] = "closed"]
    /\ scalls' = [scalls EXCEPT ![s].closeConn = @ + 1]
    /\ spc' = [spc EXCEPT ![s] = "close_listen"]
    /\ UNCHANGED <<server_socket, client_address, stdout, serr, sexit, cvars,
                   connTo, acceptq, nsent, narrived, nread, fin, splits>>

\* line 23 written as a second client_socket.close()
ServerCloseConnTwice(s) ==
    /\ spc[s] = "close_listen"
    /\ scalls' = [scalls EXCEPT ![s].closeConn = @ + 1]
    /\ server_socket' = [server_socket EXCEPT ![s] = "reaped"]
    /\ conn' = ResetQueued(s)
    /\ acceptq' = [acceptq EXCEPT ![s] = <<>>]
    /\ sexit' = [sexit EXCEPT ![s] = 0]
    /\ spc' = [spc EXCEPT ![s] = "done"]
    /\ UNCHANGED <<client_socket, client_address, stdout, serr, cvars,
                   connTo, nsent, narrived, nread, fin, splits>>

\* line 23: server_socket.close(), and the script ends
ServerCloseListen(s) ==
    /\ spc[s] = "close_listen"
    /\ server_socket' = [server_socket EXCEPT ![s] = "closed"]
    /\ conn' = ResetQueued(s)
    /\ acceptq' = [acceptq EXCEPT ![s] = <<>>]
    /\ scalls' = [scalls EXCEPT ![s].closeListen = @ + 1]
    /\ sexit' = [sexit EXCEPT ![s] = 0]
    /\ spc' = [spc EXCEPT ![s] = "done"]
    /\ UNCHANGED <<client_socket, client_address, stdout, serr, cvars,
                   connTo, nsent, narrived, nread, fin, splits>>

(***************************************************************************)
(* client.py                                                               *)
(***************************************************************************)
\* a failure answered by trying the statement again
ClientRetry(c, exc) ==
    /\ UNCHANGED <<cpc, cerr, cexit, sock>>

\* an unhandled exception in the client
ClientCrash(c, exc) ==
    /\ cpc' = [cpc EXCEPT ![c] = "crashed"]
    /\ cerr' = [cerr EXCEPT ![c] = exc]
    /\ cexit' = [cexit EXCEPT ![c] = 1]
    /\ sock' = [sock EXCEPT ![c] = "reaped"]

\* lines 4-8: client_socket = socket.socket(...);
\* client_socket.connect(('172.18.0.2', 9292)).  With nothing listening
\* the connection is refused; with the listener's queue full the request
\* is left unanswered and connect() waits.
ClientConnect(c) ==
    /\ cpc[c] = "connect"
    /\ \A s \in Listeners : Len(acceptq[s]) < Backlog
    /\ ccalls' = [ccalls EXCEPT ![c].connect = @ + 1]
    /\ IF Listeners = {}
       THEN /\ ClientCrash(c, Refused)
            /\ UNCHANGED <<payload, svars, kvars>>
       ELSE /\ \E s \in Listeners :
                 /\ acceptq' = [acceptq EXCEPT ![s] = Append(@, c)]
                 /\ connTo' = [connTo EXCEPT ![c] = s]
            /\ conn' = [conn EXCEPT ![c] = "queued"]
            /\ sock' = [sock EXCEPT ![c] = "connected"]
            /\ cpc' = [cpc EXCEPT ![c] = "sendall"]
            /\ UNCHANGED <<payload, cerr, cexit, svars,
                           nsent, narrived, nread, fin, splits>>

\* send() in place of sendall(): one write, which may take only a part
SendOnce(c) == IF Len(Bytes(payload[c])) > 7 THEN 7 ELSE Len(Bytes(payload[c]))

\* the bytes sendall() writes: all of them
Sendall(c) == Len(Bytes(payload[c]))

\* lines 11-12: client_socket.sendall(message.encode())
ClientSendall(c) ==
    /\ cpc[c] = "sendall"
    /\ ccalls' = [ccalls EXCEPT ![c].sendall = @ + 1]
    /\ IF conn[c] = "reset"
       THEN /\ ClientCrash(c, ConnReset)
            /\ UNCHANGED <<payload, svars, kvars>>
       ELSE /\ nsent' = [nsent EXCEPT ![c] = @ + Sendall(c)]
            /\ cpc' = [cpc EXCEPT ![c] = "close"]
            /\ UNCHANGED <<sock, payload, cerr, cexit, svars,
                           conn, connTo, acceptq, narrived, nread, fin, splits>>

\* line 15: client_socket.close(), and the script ends
ClientClose(c) ==
    /\ cpc[c] = "close"
    /\ sock' = [sock EXCEPT ![c] = "closed"]
    /\ fin' = [fin EXCEPT ![c] = TRUE]
    /\ ccalls' = [ccalls EXCEPT ![c].close = @ + 1]
    /\ cexit' = [cexit EXCEPT ![c] = 0]
    /\ cpc' = [cpc EXCEPT ![c] = "done"]
    /\ UNCHANGED <<payload, cerr, svars,
                   conn, connTo, acceptq, nsent, narrived, nread, splits>>

(***************************************************************************)
(* Specification                                                           *)
(***************************************************************************)
ServerStep(s) ==
    \/ ServerBind(s)
    \/ ServerListen(s)
    \/ ServerAccept(s)
    \/ ServerRecv(s)
    \/ ServerCloseConn(s)
    \/ ServerCloseListen(s)

ClientStep(c) ==
    \/ ClientConnect(c)
    \/ ClientSendall(c)
    \/ ClientClose(c)

Transport ==
    \E c \in Clients : \E n \in SplitSizes \cup {InFlight(c)} : Deliver(c, n)

Next ==
    \/ \E s \in Servers : ServerStep(s)
    \/ \E c \in Clients : ClientStep(c)
    \/ Transport

Spec == Init /\ [][Next]_vars

\* For the progress of a server: one of the two peers sends nothing, the
\* other any of the streams; the scheduler runs every server process that
\* can take a step, and the network hands over what is in flight.  A peer
\* may stop at any statement.
FairInit == Init /\ payload["c2"] = "none"

FairSpec ==
    /\ FairInit /\ [][Next]_vars
    /\ \A s \in Servers : WF_vars(ServerStep(s))
    /\ WF_vars(Transport)

(***************************************************************************)
(* Vocabulary of the properties                                            *)
(***************************************************************************)
\* the "Received message: ..." lines a server has printed, and their values
ReceivedLines(s) == SelectSeq(stdout[s], LAMBDA l : l.text = Received)
Messages(s) == [i \in 1..Len(ReceivedLines(s)) |-> ReceivedLines(s)[i].msg]

RECURSIVE Concat(_)
Concat(seqs) == IF seqs = <<>> THEN <<>> ELSE Head(seqs) \o Concat(Tail(seqs))

IsPrefix(a, b) == Len(a) <= Len(b) /\ a = SubSeq(b, 1, Len(a))

\* the server has left the receive loop by its break
PastLoop(s) == spc[s] \in {"close_conn", "close_listen", "done"}
Accepted(s) == client_address[s] # None


\* the bytes the step from this state to the next one reads from c
ReadNow(c) == SubSeq(Bytes(payload[c]), nread[c] + 1, nread'[c])

HelloLine == Line(Received, "", message)

(***************************************************************************)
(* C1                                                                      *)
(***************************************************************************)
\* C1, as claimed: a server that accepted client.py's connection and has
\* left the receive loop (so is about to close, or has closed, the accepted
\* connection) has printed the line "Received message: Hello, Server!".
C1_LiteralLine ==
    \A s \in Servers :
        (Accepted(s) /\ payload[client_address[s]] = "hello" /\ PastLoop(s))
            => \E i \in 1..Len(stdout[s]) : stdout[s][i] = HelloLine

\* C1, amended: such a server has printed at least one "Received message"
\* line, the values of these lines put together in print order are exactly
\* "Hello, Server!", and when there is one such line it is the literal
\* line; all of it is printed before the accepted connection is closed.
C1_HelloInOrder ==
    \A s \in Servers :
        (Accepted(s) /\ payload[client_address[s]] = "hello")
            => /\ PastLoop(s) =>
                    /\ Len(ReceivedLines(s)) >= 1
                    /\ Concat(Messages(s)) = message
                    /\ Len(ReceivedLines(s)) = 1 => ReceivedLines(s) = <<HelloLine>>
               /\ client_socket[s] = "closed" => PastLoop(s)

C1_Witness ==
    \E s \in Servers :
        /\ Accepted(s) /\ payload[client_address[s]] = "hello" /\ cpc[client_address[s]] = "done"
        /\ client_socket[s] = "closed"
        /\ ReceivedLines(s) = <<HelloLine>>

(***************************************************************************)
(* C2                                                                      *)
(***************************************************************************)
\* C2: when the accepted peer has closed without sending a byte, the
\* server prints no "Received message" line, is not blocked in recv(), does
\* not fail, and ends with the accepted connection and the listening socket
\* closed and exit status 0.
C2_EmptyPeer ==
    \A s \in Servers :
        (Accepted(s) /\ fin[client_address[s]] /\ nsent[client_address[s]] = 0)
            => /\ ReceivedLines(s) = <<>>
               /\ spc[s] # "crashed" /\ serr[s] = ""
               /\ spc[s] = "recv" => RecvReady(client_address[s])
               /\ spc[s] = "done" =>
                    /\ client_socket[s] = "closed" /\ server_socket[s] = "closed"
                    /\ sexit[s] = 0

C2_Witness ==
    \E s \in Servers :
        /\ Accepted(s) /\ fin[client_address[s]] /\ nsent[client_address[s]] = 0
        /\ spc[s] = "done"

(***************************************************************************)
(* C3                                                                      *)
(***************************************************************************)
\* ceil(n / BUFSIZE)
Chunks(n) == (n + BUFSIZE - 1) \div BUFSIZE

C4_RefusedNoRetry ==
    /\ [](\A c \in Clients :
            /\ ccalls[c].connect <= 1
            /\ cerr[c] = Refused =>
                 /\ cpc[c] = "crashed" /\ cexit[c] = 1
                 /\ ccalls[c].connect = 1 /\ ccalls[c].sendall = 0
                 /\ nsent[c] = 0 /\ conn[c] = "none")
    /\ [][\A c \in Clients :
            (ccalls'[c].connect # ccalls[c].connect /\ Listeners = {})
                => (cerr'[c] = Refused /\ cpc'[c] = "crashed")]_vars

C4_Witness ==
    \E c \in Clients : cerr[c] = Refused /\ cpc[c] = "crashed" /\ Listeners = {}

(***************************************************************************)
(* C5                                                                      *)
(***************************************************************************)
Holders == {s \in Servers : server_socket[s] \in {"bound", "listening"}}

\* C5: at no time do two server processes hold port 9292; a server whose
\* bind() finds the port held fails with address in use, having printed
\* nothing and never listening or accepting, and its failure leaves the
\* holder's socket as it was.
C5_OneHolder ==
    /\ [](/\ Cardinality(Holders) <= 1
          /\ \A s \in Servers :
               serr[s] = AddrInUse =>
                 /\ spc[s] = "crashed" /\ sexit[s] = 1
                 /\ stdout[s] = <<>> /\ scalls[s].accept = 0
                 /\ server_socket[s] = "reaped")
    /\ [][\A s \in Servers :
            (spc[s] = "bind" /\ spc'[s] # "bind" /\ Holders \ {s} # {})
                => /\ serr'[s] = AddrInUse
                   /\ \A t \in Servers \ {s} : server_socket'[t] = server_socket[t]]_vars

C5_Witness ==
    \E s, t \in Servers :
        /\ s # t /\ serr[s] = AddrInUse
        /\ server_socket[t] = "listening"

(***************************************************************************)
(* C6                                                                      *)
(***************************************************************************)
ConnectionLines(s) == SelectSeq(stdout[s], LAMBDA l : l.text = ConnectionFrom)

\* C6: a server calls accept() at most once and prints at most one
\* "Connection from" line; what it prints as received are bytes of the
\* accepted connection only; every other connection made to it is never
\* accepted and never read from, also after the accepted one is closed.
C6_OneConnection ==
    \A s \in Servers :
        /\ scalls[s].accept <= 1
        /\ Len(ConnectionLines(s)) = scalls[s].accept
        /\ ~Accepted(s) => ReceivedLines(s) = <<>>
        /\ Accepted(s) =>
              /\ ConnectionLines(s)[1].addr = client_address[s]
              /\ IsPrefix(Encode(Concat(Messages(s))), Sent(client_address[s]))
        /\ \A c \in Clients :
              (connTo[c] = s /\ c # client_address[s])
                  => (nread[c] = 0 /\ conn[c] \in {"queued", "reset"})

C6_Witness ==
    \E s \in Servers : \E c \in Clients :
        /\ spc[s] = "done" /\ Accepted(s) /\ c # client_address[s]
        /\ connTo[c] = s /\ nsent[c] > 0 /\ cpc[c] = "done"
        /\ payload[c] # payload[client_address[s]]
        /\ Len(ReceivedLines(s)) >= 1

(***************************************************************************)
(* C7                                                                      *)
(***************************************************************************)
\* C7, as claimed: a process that has ended, normally or by a failure, has
\* closed each socket it created exactly once.
C7_ClosedOnEveryPath ==
    /\ \A s \in Servers :
          spc[s] \in {"done", "crashed"} =>
              /\ scalls[s].closeListen = 1
              /\ Accepted(s) => scalls[s].closeConn = 1
    /\ \A c \in Clients :
          cpc[c] \in {"done", "crashed"} => ccalls[c].close = 1

\* C7, amended: a socket is open whenever the program sends, receives or
\* accepts on it, is closed at most once and never used after its close;
\* a process that runs to its normal end has closed each socket it created
\* exactly once; a process that ends in a failure has closed none of them:
\* they are open until the process exits.
C7_SocketLifecycle ==
    /\ \A s \in Servers :
          /\ spc[s] = "accept" => server_socket[s] = "listening"
          /\ spc[s] = "recv" => (client_socket[s] = "open" /\ server_socket[s] = "listening")
          /\ scalls[s].closeConn <= 1 /\ scalls[s].closeListen <= 1
          /\ client_socket[s] = "closed" <=> scalls[s].closeConn = 1
          /\ server_socket[s] = "closed" <=> scalls[s].closeListen = 1
          /\ client_socket[s] = "closed" => spc[s] \in {"close_listen", "done"}
          /\ server_socket[s] = "closed" => spc[s] = "done"
          /\ spc[s] = "done" => (client_socket[s] = "closed" /\ server_socket[s] = "closed")
          /\ spc[s] = "crashed" =>
                /\ scalls[s].closeConn = 0 /\ scalls[s].closeListen = 0
                /\ server_socket[s] = "reaped"
                /\ Accepted(s) => client_socket[s] = "reaped"
    /\ \A c \in Clients :
          /\ cpc[c] = "sendall" => sock[c] = "connected"
          /\ ccalls[c].close <= 1
          /\ sock[c] = "closed" <=> ccalls[c].close = 1
          /\ sock[c] = "closed" <=> cpc[c] = "done"
          /\ cpc[c] = "crashed" => (ccalls[c].close = 0 /\ sock[c] = "reaped")

C7_Witness ==
    /\ \E s \in Servers : spc[s] = "done" /\ Accepted(s)
    /\ \E s \in Servers : spc[s] = "crashed"
    /\ \E c \in Clients : cpc[c] = "done"
    /\ \E c \in Clients : cpc[c] = "crashed"

(***************************************************************************)
(* C8                                                                      *)
(***************************************************************************)
\* C8: a bind() on a held port and a read whose bytes are not UTF-8 (a
\* character cut at the end of the 1024 bytes included) end the server at
\* that step with an exception and exit status 1; the step prints nothing,
\* and from then on the process stays ended: it prints no line, accepts
\* nothing and reads nothing.
C8_FatalNoRetry ==
    [][\A s \in Servers :
          /\ (spc[s] = "bind" /\ Holders \ {s} # {} /\ spc'[s] # "bind")
                => (spc'[s] = "crashed" /\ serr'[s] = AddrInUse)
          /\ (spc[s] = "recv" /\ nread'[client_address[s]] # nread[client_address[s]])
                => \A data \in {ReadNow(client_address[s])} :
                      ~Decodable(data)
                          => (spc'[s] = "crashed" /\ serr'[s] = DecodeError)
          /\ (spc[s] # "crashed" /\ spc'[s] = "crashed")
                => (stdout'[s] = stdout[s] /\ sexit'[s] = 1 /\ serr'[s] # "")
          /\ spc[s] = "crashed"
                => /\ spc'[s] = "crashed"
                   /\ stdout'[s] = stdout[s] /\ scalls'[s] = scalls[s]
                   /\ Accepted(s) => nread'[client_address[s]] = nread[client_address[s]]]_vars

C8_Witness ==
    \E s \in Servers :
        /\ spc[s] = "crashed" /\ serr[s] = DecodeError
        /\ payload[client_address[s]] = "cut" /\ nread[client_address[s]] = BUFSIZE
        /\ ReceivedLines(s) = <<>>

(***************************************************************************)
(* C9                                                                      *)
(***************************************************************************)
\* C9, as claimed: the server is outside the receive loop only when the
\* peer has closed its side.
C9_LeavesOnlyOnClose ==
    \A s \in Servers : (Accepted(s) /\ spc[s] # "recv") => fin[client_address[s]]

\* C9, amended: the server leaves the loop by its break exactly when a read
\* returns zero bytes, which is when the peer has closed and all it sent
\* has been read; the only other way out is a chunk that fails to decode,
\* which ends the process whether or not the peer has closed.  The
\* listening socket is closed after the accepted connection.  With nothing
\* to accept, or with nothing to read from a peer that has not closed, the
\* server takes no step.  Once the accepted peer has closed, the server
\* eventually ends: by closing both sockets, or by a decode error.
C9_StopsOnZeroRead ==
    /\ [](\A s \in Servers :
            /\ PastLoop(s) =>
                 (fin[client_address[s]] /\ nread[client_address[s]] = nsent[client_address[s]])
            /\ (Accepted(s) /\ spc[s] = "crashed") => serr[s] = DecodeError
            /\ server_socket[s] = "closed" => client_socket[s] = "closed")
    /\ [][\A s \in Servers :
            /\ (spc[s] = "accept" /\ acceptq[s] = <<>>) => UNCHANGED <<spc[s], stdout[s]>>
            /\ (spc[s] = "recv" /\ ~fin[client_address[s]]
                    /\ Unread(client_address[s]) = 0)
                  => UNCHANGED <<spc[s], stdout[s], nread[client_address[s]]>>]_vars
    /\ \A s \in Servers :
          (Accepted(s) /\ fin[client_address[s]])
              ~> (\/ spc[s] = "done" /\ client_socket[s] = "closed" /\ server_socket[s] = "closed"
                  \/ spc[s] = "crashed" /\ serr[s] = DecodeError)

C9_Witness ==
    \E s \in Servers :
        /\ Accepted(s) /\ fin[client_address[s]] /\ spc[s] = "done"
        /\ nread[client_address[s]] > 0

(***************************************************************************)
(* C10                                                                     *)
(***************************************************************************)
\* C10: the values of a server's "Received message" lines, encoded and put
\* together in print order, are a prefix of the bytes the accepted client
\* has sent; they are all of its stream once the server has left the loop
\* by its break; and no printed value is empty.
C10_StreamPreserved ==
    \A s \in Servers :
        /\ \A i \in 1..Len(Messages(s)) : Messages(s)[i] # <<>>
        /\ Accepted(s) =>
              \A printed \in {Encode(Concat(Messages(s)))} :
                  /\ IsPrefix(printed, Sent(client_address[s]))
                  /\ serr[s] # DecodeError =>
                        printed = SubSeq(Sent(client_address[s]), 1, nread[client_address[s]])
                  /\ PastLoop(s) => printed = Bytes(payload[client_address[s]])

C10_Witness ==
    \E s \in Servers :
        /\ Accepted(s) /\ spc[s] = "done" /\ payload[client_address[s]] = "cut"
        /\ Len(ReceivedLines(s)) = 3

====
